---- MODULE Spec2Model ----
(***************************************************************************)
(* papa/server/proc.py: the process supervisor of the papa daemon.         *)
(*                                                                         *)
(* The model covers OutputQueue (the bounded output buffer), Process       *)
(* (spawn, the capture thread _watch, watch, remove_output), the commands  *)
(* process_command and watch_command, and the watch loop _do_watch.        *)
(*                                                                         *)
(* Payload bytes are represented by their length: the code reads only      *)
(* len(data) and the truth value of data.  A CLOSED item carries the exit  *)
(* status in its data field.                                               *)
(***************************************************************************)
EXTENDS Integers, Sequences, FiniteSets, TLC

\* ------------------------------------------------------------------ bounds
MaxTime == 2        \* time() takes the values 1..MaxTime
MaxObjs == 2        \* Process objects constructed by process commands
MaxWrites == 2      \* write() calls one child process makes
MaxChunk == 2       \* largest number of bytes one write() produces
NumSessions == 2    \* client connections that run a watch loop
MaxBuf == 3         \* largest bufsize of the queue driven on its own
MaxAdds == 3        \* payload appends to the queue driven on its own

\* ------------------------------------------------------- program constants
STDOUT == 0
STDERR == 1
CLOSED == -1

Names == {"a"}
Sessions == 1..NumSessions
ChunkSizes == 2..MaxChunk   \* bytes one write() of a child produces
ExitStatuses == {1}
NoProc == 0         \* dict.get(name) found nothing (None)
None == <<>>        \* Process._output before spawn; the list of an empty retrieve

\* ------------------------------------------------------------ OutputQueue
\* OutputQueue.Item = namedtuple('Item', 'type timestamp data')
Item(type, timestamp, data) ==
    [type |-> type, timestamp |-> timestamp, data |-> data]

\* OutputQueue.__init__
NewQueue(bufsize) == [bufsize |-> bufsize, q |-> <<>>, used |-> 0]

\* the eviction loop of add: while self._used > self.bufsize: popleft ...
\* popleft of an empty deque raises IndexError; len() of the exit status of a
\* CLOSED item raises TypeError after the item was popped.
\* mutant of Evict: the eviction loop is missing
EvictNothing(q, used, bufsize) == [q |-> q, used |-> used, err |-> "ok"]

RECURSIVE Evict(_, _, _)
Evict(q, used, bufsize) ==
    IF used > bufsize
    THEN IF q = <<>>
         THEN [q |-> q, used |-> used, err |-> "IndexError"]
         ELSE IF Head(q).type = CLOSED
              THEN [q |-> Tail(q), used |-> used, err |-> "TypeError"]
              ELSE Evict(Tail(q), used - Head(q).data, bufsize)
    ELSE [q |-> q, used |-> used, err |-> "ok"]

\* OutputQueue.add; the result carries err, the exception add raised ("ok": none)
Add(oq, type, now, data) ==
    LET it == Item(type, now, data) IN
    IF type # CLOSED /\ data # 0
    THEN IF data >= oq.bufsize
         THEN [oq |-> [oq EXCEPT !.q = <<it>>, !.used = data], err |-> "ok"]
         ELSE LET e == Evict(oq.q, oq.used + data, oq.bufsize) IN
              IF e.err = "ok"
              THEN [oq |-> [oq EXCEPT !.q = Append(e.q, it), !.used = e.used],
                    err |-> "ok"]
              ELSE [oq |-> [oq EXCEPT !.q = e.q, !.used = e.used], err |-> e.err]
    ELSE [oq |-> [oq EXCEPT !.q = Append(oq.q, it)], err |-> "ok"]

\* OutputQueue.retrieve: (timestamp of the last item, list) or (0, None)
Retrieve(oq) ==
    IF oq.q # <<>>
    THEN [t |-> oq.q[Len(oq.q)].timestamp, l |-> oq.q]
    ELSE [t |-> 0, l |-> None]

\* the loop of remove: while q and q[0].timestamp <= timestamp: q.popleft()
\* mutant of DropUpTo: the comparison is < instead of <=
RECURSIVE DropBefore(_, _)
DropBefore(q, timestamp) ==
    IF q # <<>> /\ Head(q).timestamp < timestamp
    THEN DropBefore(Tail(q), timestamp)
    ELSE q

RECURSIVE DropUpTo(_, _)
DropUpTo(q, timestamp) ==
    IF q # <<>> /\ Head(q).timestamp <= timestamp
    THEN DropUpTo(Tail(q), timestamp)
    ELSE q

\* OutputQueue.remove
Remove(oq, timestamp) == [oq EXCEPT !.q = DropUpTo(oq.q, timestamp)]

\* ---------------------------------------------------------------- Process
\* convert_size_string_to_bytes: a size string is its digits and its suffix
\* ("" when int(s) succeeds, else the last character, lower-cased)
convert_size_string_to_bytes(s) ==
    IF s.suffix = ""
    THEN s.digits
    ELSE s.digits * (CASE s.suffix = "g" -> 1073741824
                       [] s.suffix = "m" -> 1048576
                       [] s.suffix = "k" -> 1024)

\* the options of a process command.  uid, gid: 0 stands for "not given";
\* stderr is 'stdout' (merged) or a number.
BaseConfig ==
    [args |-> <<"run">>, env |-> {}, rlimits |-> {}, working_dir |-> "",
     shell |-> FALSE, uid |-> 0, gid |-> 0, stdout |-> 1,
     stderr |-> [merged |-> FALSE, n |-> 1],
     bufsize |-> [digits |-> 3, suffix |-> ""]]

Configs ==
    {BaseConfig,
     [BaseConfig EXCEPT !.args = <<"run", "-v">>],
     [BaseConfig EXCEPT !.stderr = [merged |-> TRUE, n |-> 0]]}

\* truth value of Process.err
ErrSet(err) == err.merged \/ err.n # 0

\* the child process of a Process that was never spawned (self._worker = None)
NoChild ==
    [po |-> 0, pe |-> 0, exited |-> FALSE, status |-> 0, writes |-> 0, closed |-> {}]

\* Process.__init__ with uid and gid not given.  wpc is the position of the
\* capture thread, child the OS process and its pipes; outcome, nclosed and
\* napp record what spawn did, how many CLOSED items the thread appended and
\* how many items it appended in all (the ordinal of the last item appended).
ProcessInit(name, cfg) ==
    LET bufsize == convert_size_string_to_bytes(cfg.bufsize) IN
    [name |-> name, args |-> cfg.args, env |-> cfg.env, rlimits |-> cfg.rlimits,
     working_dir |-> cfg.working_dir, shell |-> cfg.shell,
     pid |-> 0, bufsize |-> bufsize, running |-> FALSE,
     out |-> IF bufsize # 0 THEN cfg.stdout ELSE 0,
     err |-> IF bufsize # 0 THEN cfg.stderr ELSE [merged |-> FALSE, n |-> 0],
     uid |-> 0, gid |-> 0,
     output |-> None,
     wpc |-> "none", child |-> NoChild, outcome |-> "new", nclosed |-> 0,
     napp |-> 0]

\* mutant of ProcEq: args is not compared
ProcEqButArgs(self, other) ==
    /\ self.name = other.name
    /\ self.env = other.env
    /\ self.rlimits = other.rlimits
    /\ self.working_dir = other.working_dir
    /\ self.shell = other.shell
    /\ self.out = other.out
    /\ self.err = other.err
    /\ self.bufsize = other.bufsize
    /\ self.uid = other.uid
    /\ self.gid = other.gid

\* Process.__eq__
ProcEq(self, other) ==
    /\ self.name = other.name
    /\ self.args = other.args
    /\ self.env = other.env
    /\ self.rlimits = other.rlimits
    /\ self.working_dir = other.working_dir
    /\ self.shell = other.shell
    /\ self.out = other.out
    /\ self.err = other.err
    /\ self.bufsize = other.bufsize
    /\ self.uid = other.uid
    /\ self.gid = other.gid

\* the pipes _watch waits on, in the order it lists them
Pipes(o) ==
    (IF o.out # 0 THEN <<"stdout">> ELSE <<>>) \o
    (IF ErrSet(o.err) /\ ~o.err.merged THEN <<"stderr">> ELSE <<>>)

\* ------------------------------------------------------------------ state
VARIABLES
    clock,      \* the value time() returns
    processes,  \* instance['globals']['processes']: name -> Process (NoProc: absent)
    objs,       \* the Process objects constructed so far, in order of construction
    npids,      \* OS processes created by Popen so far
    sess,       \* per client connection: the watch loop it runs
    acked,      \* Process objects whose CLOSED frame was sent and acknowledged
    buf,        \* an OutputQueue driven directly through add and remove
    nadds,      \* add calls made on buf
    last        \* the last call made on buf and what it did

vars == <<clock, processes, objs, npids, sess, acked, buf, nadds, last>>
qvars == <<buf, nadds, last>>

Objs == 1..Len(objs)

\* no call was made on buf yet; type stays CLOSED once CLOSED was appended
NoCall == [op |-> "none", type |-> STDOUT, arg |-> 0, err |-> "ok", gone |-> 0]

\* a connection that runs no watch loop yet; connected: the client has not
\* closed its end
IdleSession ==
    [pc |-> "idle", procs |-> <<>>, one_line |-> "", result |-> "",
     connected |-> TRUE]

Init ==
    /\ clock = 1
    /\ processes = [n \in Names |-> NoProc]
    /\ objs = <<>>
    /\ npids = 0
    /\ sess = [s \in Sessions |-> IdleSession]
    /\ acked = {}
    /\ buf = NewQueue(convert_size_string_to_bytes(BaseConfig.bufsize))
    /\ nadds = 0
    /\ last = NoCall

\* time() moves on
Tick ==
    /\ clock < MaxTime
    /\ clock' = clock + 1
    /\ UNCHANGED <<processes, objs, npids, sess, acked, qvars>>

\* ------------------------------------------------------------------ spawn
\* mutant of Existing: the lookup finds nothing
ExistingMissed(name) == NoProc

\* self._processes.get(self.name)
Existing(name) == processes[name]

\* Process.spawn on the new object self: the object after the call and the
\* registry after the call.  outcome "error" is the raise of utils.Error.
SpawnResult(self) ==
    LET existing == Existing(self.name) IN
    IF existing # NoProc
    THEN IF ProcEq(self, objs[existing])
         THEN [self |-> [self EXCEPT !.pid = objs[existing].pid,
                                     !.outcome = "same"],
               register |-> FALSE]
         ELSE [self |-> [self EXCEPT !.outcome = "error"], register |-> FALSE]
    ELSE [self |-> [self EXCEPT !.pid = npids + 1,
                                !.output = <<NewQueue(self.bufsize)>>,
                                !.running = TRUE,
                                !.wpc = IF Pipes(self) # <<>> THEN "loop" ELSE "wait",
                                !.outcome = "spawned"],
          register |-> TRUE]

\* process_command: construct the Process, spawn it under the global lock,
\* and with watch=1 enter _do_watch on the handle spawn returned (when spawn
\* raised, the command ends there).
ProcessCommand(s, name, cfg, watch) ==
    /\ Len(objs) < MaxObjs
    /\ watch => sess[s].pc = "idle"
    /\ LET r == SpawnResult(ProcessInit(name, cfg))
           id == Len(objs) + 1
       IN /\ objs' = Append(objs, r.self)
          /\ processes' = IF r.register
                          THEN [processes EXCEPT ![name] = id]
                          ELSE processes
          /\ npids' = IF r.register THEN npids + 1 ELSE npids
          /\ sess' = IF watch /\ r.self.outcome # "error"
                     THEN [sess EXCEPT ![s] =
                             [IdleSession EXCEPT
                                !.pc = "poll",
                                !.procs = <<[name |-> name, p |-> id, t |-> 0,
                                             closed |-> FALSE, hi |-> 0]>>]]
                     ELSE sess
    /\ UNCHANGED <<clock, acked, qvars>>

\* ------------------------------------------------- the child OS process
\* the pipe a write to the child's stdout or stderr lands in ("": /dev/null)
PipeOf(o, fd) ==
    IF fd = "stdout"
    THEN (IF o.out # 0 THEN "stdout" ELSE "")
    ELSE IF ~ErrSet(o.err) THEN ""
         ELSE IF o.err.merged THEN (IF o.out # 0 THEN "stdout" ELSE "")
         ELSE "stderr"

\* the child writes n bytes to fd
ChildWrite(i, fd, n) ==
    /\ objs[i].outcome = "spawned"
    /\ ~objs[i].child.exited
    /\ objs[i].child.writes < MaxWrites
    /\ PipeOf(objs[i], fd) \notin objs[i].child.closed
    /\ LET pipe == PipeOf(objs[i], fd)
           c == objs[i].child
       IN objs' = [objs EXCEPT ![i].child =
                     [c EXCEPT !.writes = c.writes + 1,
                               !.po = IF pipe = "stdout" THEN c.po + n ELSE c.po,
                               !.pe = IF pipe = "stderr" THEN c.pe + n ELSE c.pe]]
    /\ UNCHANGED <<clock, processes, npids, sess, acked, qvars>>

\* the child closes its end of a pipe while it runs; what it wrote before
\* stays readable, then the pipe is at end of file
ChildClose(i, pipe) ==
    /\ objs[i].outcome = "spawned"
    /\ ~objs[i].child.exited
    /\ pipe \in {Pipes(objs[i])[k] : k \in DOMAIN Pipes(objs[i])}
    /\ pipe \notin objs[i].child.closed
    /\ objs' = [objs EXCEPT ![i].child.closed = @ \cup {pipe}]
    /\ UNCHANGED <<clock, processes, npids, sess, acked, qvars>>

\* the child exits with a status; its ends of the pipes are closed
ChildExit(i, status) ==
    /\ objs[i].outcome = "spawned"
    /\ ~objs[i].child.exited
    /\ objs' = [objs EXCEPT ![i].child.exited = TRUE, ![i].child.status = status]
    /\ UNCHANGED <<clock, processes, npids, sess, acked, qvars>>

\* ------------------------------------------------------ the capture thread
\* select.select(pipes, [], [])[0]: the pipes with bytes to read or at end of file
Ready(o) ==
    SelectSeq(Pipes(o),
              LAMBDA p : \/ (IF p = "stdout" THEN o.child.po ELSE o.child.pe) > 0
                         \/ o.child.exited
                         \/ p \in o.child.closed)

\* for p in out: data = p.read(); if data: output.add(...).  The result holds
\* the object after the reads, the last value of data and the exception an add
\* raised (the reads after it do not happen).
RECURSIVE ReadPipes(_, _, _, _)
ReadPipes(o, out, now, data) ==
    IF out = <<>>
    THEN [o |-> o, data |-> data, err |-> "ok"]
    ELSE LET p == Head(out)
             d == IF p = "stdout" THEN o.child.po ELSE o.child.pe
             o1 == IF p = "stdout" THEN [o EXCEPT !.child.po = 0]
                                   ELSE [o EXCEPT !.child.pe = 0]
         IN IF d # 0
            THEN LET r == Add(o1.output[1],
                              IF p = "stdout" THEN STDOUT ELSE STDERR, now, d)
                     o2 == [o1 EXCEPT !.output = <<r.oq>>]
                 IN IF r.err # "ok"
                    THEN [o |-> o2, data |-> d, err |-> r.err]
                    ELSE ReadPipes([o2 EXCEPT !.napp = o.napp + 1], Tail(out), now, d)
            ELSE ReadPipes(o1, Tail(out), now, d)

\* one turn of the loop of _watch: select, read every ready pipe, append.
\* The loop ends when the last read returned nothing; an exception ends the thread.
WatchLoop(i) ==
    /\ objs[i].wpc = "loop"
    /\ Ready(objs[i]) # <<>>
    /\ LET r == ReadPipes(objs[i], Ready(objs[i]), clock, 1) IN
       objs' = [objs EXCEPT ![i] =
                  [r.o EXCEPT !.wpc = IF r.err # "ok" THEN "crashed"
                                      ELSE IF r.data # 0 THEN "loop" ELSE "wait"]]
    /\ UNCHANGED <<clock, processes, npids, sess, acked, qvars>>

\* a turn of the loop in which the read of the k-th ready pipe raises (an I/O
\* error of the operating system): the reads before it are done, the
\* exception leaves _watch and the thread ends
WatchLoopReadFails(i, k) ==
    /\ objs[i].wpc = "loop"
    /\ k \in DOMAIN Ready(objs[i])
    /\ LET r == ReadPipes(objs[i], SubSeq(Ready(objs[i]), 1, k - 1), clock, 1) IN
       /\ r.err = "ok"
       /\ objs' = [objs EXCEPT ![i] = [r.o EXCEPT !.wpc = "failed"]]
    /\ UNCHANGED <<clock, processes, npids, sess, acked, qvars>>

\* out = self._worker.wait(); output.add(OutputQueue.CLOSED, out)
WatchWait(i) ==
    /\ objs[i].wpc = "wait"
    /\ objs[i].child.exited
    /\ LET r == Add(objs[i].output[1], CLOSED, clock, objs[i].child.status) IN
       objs' = [objs EXCEPT ![i].output = <<r.oq>>,
                            ![i].nclosed = objs[i].nclosed + 1,
                            ![i].napp = objs[i].napp + 1,
                            ![i].wpc = "closed"]
    /\ UNCHANGED <<clock, processes, npids, sess, acked, qvars>>

\* mutant of WatchEnd: the thread goes back into its read loop
WatchEndReenters(i) ==
    /\ objs[i].wpc = "closed"
    /\ objs' = [objs EXCEPT ![i].running = FALSE, ![i].wpc = "loop"]
    /\ UNCHANGED <<clock, processes, npids, sess, acked, qvars>>

\* self.running = False; the thread ends
WatchEnd(i) ==
    /\ objs[i].wpc = "closed"
    /\ objs' = [objs EXCEPT ![i].running = FALSE, ![i].wpc = "done"]
    /\ UNCHANGED <<clock, processes, npids, sess, acked, qvars>>

\* ------------------------------------------------------- the watch loop
\* the orders in which a dict holding the keys S can list them
Orders(S) ==
    {f \in [1..Cardinality(S) -> S] : \A i, j \in DOMAIN f : i # j => f[i] # f[j]}

\* Process.watch: self._output.retrieve(); with _output None the attribute
\* lookup raises AttributeError
ProcessWatch(o) ==
    IF o.output = None
    THEN [t |-> 0, l |-> None, err |-> "AttributeError"]
    ELSE [t |-> Retrieve(o.output[1]).t, l |-> Retrieve(o.output[1]).l, err |-> "ok"]

\* whether a retrieved list holds a CLOSED item
HasClosed(l) == \E k \in DOMAIN l : l[k].type = CLOSED

\* the first for loop of _do_watch over procs[k..]: each tracked process is
\* retrieved; a non-empty list sets proc['t'] and, with a CLOSED item in it,
\* proc['closed'].  data tells whether any frame was produced.  hi records
\* the ordinal of the last item that went into a batch of this session.
RECURSIVE PollProcs(_, _, _)
PollProcs(procs, k, data) ==
    IF k > Len(procs)
    THEN [procs |-> procs, data |-> data, err |-> "ok"]
    ELSE LET r == ProcessWatch(objs[procs[k].p]) IN
         IF r.err # "ok"
         THEN [procs |-> procs, data |-> data, err |-> r.err]
         ELSE IF r.l # None
              THEN PollProcs([procs EXCEPT ![k].t = r.t,
                                           ![k].closed = procs[k].closed \/ HasClosed(r.l),
                                           ![k].hi = objs[procs[k].p].napp],
                             k + 1, TRUE)
              ELSE PollProcs(procs, k + 1, data)

\* one pass of the while loop up to sock.sendall(out): with frames to send the
\* batch goes out and the loop waits for the acknowledgment line; with none it
\* sleeps and polls again (no change of state).  sendall on a connection the
\* client has closed raises socket.error.
DoWatchPoll(s) ==
    /\ sess[s].pc = "poll"
    /\ LET r == PollProcs(sess[s].procs, 1, FALSE) IN
       /\ r.err # "ok" \/ r.data
       /\ sess' = [sess EXCEPT ![s] =
                     IF r.err # "ok"
                     THEN [@ EXCEPT !.pc = "done", !.procs = <<>>, !.result = r.err]
                     ELSE IF ~sess[s].connected
                     THEN [@ EXCEPT !.pc = "done", !.procs = <<>>,
                                    !.result = "socket.error"]
                     ELSE [@ EXCEPT !.pc = "ack", !.procs = r.procs]]
    /\ UNCHANGED <<clock, processes, objs, npids, acked, qvars>>

\* str.lower() of the acknowledgment lines a client sends
Lower(line) == IF line = "Q" THEN "q" ELSE line

AckLines == {"q", "Q", ""}

\* mutant of TrimProcs: no buffer is trimmed
TrimNothing(os, procs, k) == os

\* Process.remove_output for every tracked process with proc['t'] set
RECURSIVE TrimProcs(_, _, _)
TrimProcs(os, procs, k) ==
    IF k > Len(procs)
    THEN os
    ELSE IF procs[k].t # 0
         THEN TrimProcs([os EXCEPT ![procs[k].p].output =
                            <<Remove(os[procs[k].p].output[1], procs[k].t)>>],
                        procs, k + 1)
         ELSE TrimProcs(os, procs, k + 1)

\* mutant of ClosedNames: every process with proc['t'] set counts as closed
ClosedNamesAll(procs) ==
    LET c == SelectSeq(procs, LAMBDA e : e.t # 0) IN
    [k \in DOMAIN c |-> c[k].name]

\* closed: the names of the tracked processes with proc['t'] and proc['closed']
ClosedNames(procs) ==
    LET c == SelectSeq(procs, LAMBDA e : e.t # 0 /\ e.closed) IN
    [k \in DOMAIN c |-> c[k].name]

\* for name in closed: del procs[name]; del all_processes[name].
\* del of a name the registry does not hold raises KeyError.
RECURSIVE DeleteClosed(_, _, _)
DeleteClosed(procs, registry, closed) ==
    IF closed = <<>>
    THEN [procs |-> procs, registry |-> registry, err |-> "ok"]
    ELSE LET name == Head(closed)
             rest == SelectSeq(procs, LAMBDA e : e.name # name)
         IN IF registry[name] = NoProc
            THEN [procs |-> rest, registry |-> registry, err |-> "KeyError"]
            ELSE DeleteClosed(rest, [registry EXCEPT ![name] = NoProc], Tail(closed))

\* mutant of AckResult: the stop request is looked at before the tracked set
AckResultStopFirst(err, procs, one_line) ==
    IF err # "ok" THEN err
    ELSE IF one_line = "q" THEN "Stopped watching"
    ELSE IF procs = <<>> THEN "Nothing left to watch"
    ELSE ""

\* how the pass ends: the exception the deletion raised, else the return
\* value of "if not procs: return ...; if one_line == 'q': return ..."
\* ("": the loop goes on)
AckResult(err, procs, one_line) ==
    IF err # "ok" THEN err
    ELSE IF procs = <<>> THEN "Nothing left to watch"
    ELSE IF one_line = "q" THEN "Stopped watching"
    ELSE ""

\* the rest of the pass after readline returned line: trim the buffers,
\* delete the closed processes under the global lock, decide how to go on.
\* When _do_watch returns or raises, its locals are gone (procs is emptied).
DoWatchAckPass(s, line, connected) ==
    /\ sess[s].pc = "ack"
    /\ LET one_line == Lower(line)
           procs == sess[s].procs
           d == DeleteClosed(procs, processes, ClosedNames(procs))
           result == AckResult(d.err, d.procs, one_line)
       IN /\ objs' = TrimProcs(objs, procs, 1)
          /\ processes' = d.registry
          /\ acked' = acked \cup {procs[k].p : k \in {j \in DOMAIN procs : procs[j].closed}}
          /\ sess' = [sess EXCEPT ![s] =
                        [pc |-> IF result = "" THEN "poll" ELSE "done",
                         procs |-> IF result = "" THEN d.procs ELSE <<>>,
                         one_line |-> one_line,
                         result |-> result,
                         connected |-> connected]]
    /\ UNCHANGED <<clock, npids, qvars>>

\* the client sends an acknowledgment line and the pass goes on with it
DoWatchAck(s, line) ==
    /\ sess[s].connected
    /\ DoWatchAckPass(s, line, TRUE)

\* the client closes the connection while the session waits in readline:
\* readline either raises, and the exception leaves _do_watch, or returns the
\* empty string of a stream at its end, and the pass goes on with it
DoWatchDisconnect(s, raises) ==
    /\ sess[s].pc = "ack"
    /\ sess[s].connected
    /\ IF raises
       THEN /\ sess' = [sess EXCEPT ![s] =
                          [@ EXCEPT !.pc = "done", !.procs = <<>>,
                                    !.result = "socket.error",
                                    !.connected = FALSE]]
            /\ UNCHANGED <<clock, processes, objs, npids, acked, qvars>>
       ELSE DoWatchAckPass(s, "", FALSE)

\* watch_command: track every registered process the arguments match
WatchCommand(s, args) ==
    /\ sess[s].pc = "idle"
    /\ LET matched == {n \in args : processes[n] # NoProc} IN
       \E order \in Orders(matched) :
          sess' = [sess EXCEPT ![s] =
                     IF matched = {}
                     THEN [IdleSession EXCEPT !.pc = "done", !.result = "Nothing to watch"]
                     ELSE [IdleSession EXCEPT
                             !.pc = "poll",
                             !.procs = [k \in DOMAIN order |->
                                          [name |-> order[k], p |-> processes[order[k]],
                                           t |-> 0, closed |-> FALSE, hi |-> 0]]]]
    /\ UNCHANGED <<clock, processes, objs, npids, acked, qvars>>

\* ------------------------------------------------------------ specification
Next ==
    \/ Tick
    \/ \E name \in Names, cfg \in Configs : ProcessCommand(1, name, cfg, FALSE)
    \/ \E s \in Sessions, name \in Names, cfg \in Configs :
          ProcessCommand(s, name, cfg, TRUE)
    \/ \E i \in Objs, fd \in {"stdout", "stderr"}, n \in ChunkSizes : ChildWrite(i, fd, n)
    \/ \E i \in Objs, status \in ExitStatuses : ChildExit(i, status)
    \/ \E i \in Objs : WatchLoop(i)
    \/ \E i \in Objs : WatchWait(i)
    \/ \E i \in Objs : WatchEnd(i)
    \/ \E s \in Sessions, args \in (SUBSET Names) \ {{}} : WatchCommand(s, args)
    \/ \E s \in Sessions : DoWatchPoll(s)
    \/ \E s \in Sessions, line \in AckLines : DoWatchAck(s, line)

Spec == Init /\ [][Next]_vars

\* ----------------------------------- capture threads, children and pipes
\* The processes and their capture threads without watch sessions, with the
\* two things a pipe can do besides carrying bytes until the child exits:
\* the child closes one of its pipes early, and a read raises.
PipeNext ==
    \/ Tick
    \/ \E name \in Names, cfg \in Configs : ProcessCommand(1, name, cfg, FALSE)
    \/ \E i \in Objs, fd \in {"stdout", "stderr"}, n \in ChunkSizes : ChildWrite(i, fd, n)
    \/ \E i \in Objs, pipe \in {"stdout", "stderr"} : ChildClose(i, pipe)
    \/ \E i \in Objs, status \in ExitStatuses : ChildExit(i, status)
    \/ \E i \in Objs : WatchLoop(i)
    \/ \E i \in Objs, k \in 1..2 : WatchLoopReadFails(i, k)
    \/ \E i \in Objs : WatchWait(i)
    \/ \E i \in Objs : WatchEnd(i)

PipeSpec == Init /\ [][PipeNext]_vars

\* --------------------------------------------- clients that disconnect
\* The program with clients that may close their connection while their
\* watch session waits for the acknowledgment line.
DisconnectNext ==
    \/ Next
    \/ \E s \in Sessions, raises \in BOOLEAN : DoWatchDisconnect(s, raises)

DisconnectSpec == Init /\ [][DisconnectNext]_vars

\* ------------------------------------------ a process with stdout=10
\* The program with every process spawned with the option stdout=10 and no
\* buffer size option (bufsize is then '1m'), its command writing 100 bytes
\* to stdout in one write.
ScenarioConfig ==
    [BaseConfig EXCEPT !.stdout = 10, !.bufsize = [digits |-> 1, suffix |-> "m"]]

ScenarioNext ==
    \/ Tick
    \/ \E name \in Names : ProcessCommand(1, name, ScenarioConfig, FALSE)
    \/ \E s \in Sessions, name \in Names : ProcessCommand(s, name, ScenarioConfig, TRUE)
    \/ \E i \in Objs : objs[i].child.writes = 0 /\ ChildWrite(i, "stdout", 100)
    \/ \E i \in Objs, status \in ExitStatuses : ChildExit(i, status)
    \/ \E i \in Objs : WatchLoop(i)
    \/ \E i \in Objs : WatchWait(i)
    \/ \E i \in Objs : WatchEnd(i)
    \/ \E s \in Sessions, args \in (SUBSET Names) \ {{}} : WatchCommand(s, args)
    \/ \E s \in Sessions : DoWatchPoll(s)
    \/ \E s \in Sessions, line \in AckLines : DoWatchAck(s, line)

ScenarioSpec == Init /\ [][ScenarioNext]_vars

\* ------------------------------------- an OutputQueue driven on its own
\* Every sequence of add and remove calls a caller can make on one queue:
\* payload appends of 1..MaxChunk bytes, at most one CLOSED append, after
\* which nothing is appended (as _watch does), and remove at any timestamp.
BufSizes == 1..MaxBuf

QInit ==
    /\ clock = 1
    /\ processes = [n \in Names |-> NoProc]
    /\ objs = <<>>
    /\ npids = 0
    /\ sess = [s \in Sessions |-> IdleSession]
    /\ acked = {}
    /\ buf \in {NewQueue(c) : c \in BufSizes}
    /\ nadds = 0
    /\ last = NoCall

\* the items of q that are in r no more, r being what a call left of q
Gone(q, r) == Len(q) - Len(r)

\* buf.add(type, data) with data of n bytes
QAdd(type, n) ==
    /\ nadds < MaxAdds
    /\ last.type # CLOSED
    /\ LET r == Add(buf, type, clock, n) IN
       /\ buf' = r.oq
       /\ last' = [op |-> "add", type |-> type, arg |-> n, err |-> r.err,
                   gone |-> IF r.err = "ok" THEN Len(buf.q) + 1 - Len(r.oq.q)
                            ELSE Len(buf.q) - Len(r.oq.q)]
    /\ nadds' = nadds + 1
    /\ UNCHANGED <<clock, processes, objs, npids, sess, acked>>

\* buf.add(CLOSED, status)
QClose(status) ==
    /\ last.type # CLOSED
    /\ LET r == Add(buf, CLOSED, clock, status) IN
       /\ buf' = r.oq
       /\ last' = [op |-> "add", type |-> CLOSED, arg |-> status, err |-> r.err,
                   gone |-> 0]
    /\ UNCHANGED <<clock, processes, objs, npids, sess, acked, nadds>>

\* buf.remove(timestamp)
QRemove(timestamp) ==
    /\ buf' = Remove(buf, timestamp)
    /\ last' = [op |-> "remove", type |-> last.type, arg |-> timestamp, err |-> "ok",
                gone |-> Gone(buf.q, Remove(buf, timestamp).q)]
    /\ UNCHANGED <<clock, processes, objs, npids, sess, acked, nadds>>

QNext ==
    \/ Tick
    \/ \E type \in {STDOUT, STDERR}, n \in 1..MaxChunk : QAdd(type, n)
    \/ \E status \in ExitStatuses : QClose(status)
    \/ \E timestamp \in 0..MaxTime : QRemove(timestamp)

QSpec == QInit /\ [][QNext]_vars

\* ------------------------------------------------------------- properties
\* the payload bytes q retains: the lengths of its STDOUT and STDERR items
RECURSIVE SumLen(_)
SumLen(q) ==
    IF q = <<>> THEN 0
    ELSE (IF Head(q).type = CLOSED THEN 0 ELSE Head(q).data) + SumLen(Tail(q))

\* C1: after every append of a STDOUT/STDERR event to a queue of capacity C,
\* whatever appends and trims came before, the retained payload bytes are at
\* most C, unless the event appended has length >= C, and then it is the only
\* retained event.
C1_AppendKeepsCapacity ==
    [][(nadds' = nadds + 1)
         => IF last'.arg >= buf.bufsize
            THEN buf'.q = <<Item(last'.type, clock, last'.arg)>>
            ELSE SumLen(buf'.q) <= buf.bufsize]_vars

\* C1 witness: an append overflowed the capacity and evicted older events
C1_Witness ==
    /\ last.op = "add" /\ last.type # CLOSED /\ last.err = "ok"
    /\ last.gone > 0 /\ last.arg < buf.bufsize
    /\ Len(buf.q) >= 2

\* the events of q with a timestamp after T
After(q, T) == SelectSeq(q, LAMBDA e : e.timestamp > T)

\* the length of the longest prefix of q whose events have timestamp <= T
RECURSIVE PrefixUpTo(_, _)
PrefixUpTo(q, T) ==
    IF q = <<>> \/ Head(q).timestamp > T THEN 0 ELSE 1 + PrefixUpTo(Tail(q), T)

\* C2: on a queue with non-decreasing timestamps remove(T) deletes exactly the
\* maximal prefix of events with timestamp <= T (so every event with
\* timestamp <= T), leaves the others in place and in order, and a second
\* remove(T) changes nothing.
C2_RemoveIsPrefixTrim ==
    \A T \in 0..MaxTime :
        LET r == Remove(buf, T)
            k == Cardinality({i \in DOMAIN buf.q : buf.q[i].timestamp <= T})
        IN /\ r.q = SubSeq(buf.q, k + 1, Len(buf.q))
           /\ r.q = After(buf.q, T)
           /\ k = PrefixUpTo(buf.q, T)
           /\ Remove(r, T) = r
           /\ r.bufsize = buf.bufsize

\* C2 witness: a remove took a proper prefix of two or more events
\* and left a later event in place
C2_Witness ==
    /\ last.op = "remove" /\ last.gone >= 2
    /\ buf.q # <<>>
    /\ buf.q[1].timestamp > last.arg

\* r is what is left of q after dropping some of its first items
IsSuffix(r, q) == \E k \in 0..Len(q) : r = SubSeq(q, k + 1, Len(q))

\* the deque of Process object i
QueueOf(os, i) == os[i].output[1].q

\* C3: once the capture thread has appended CLOSED to a process's buffer, no
\* further event is appended to that buffer (its queue only loses items from
\* the front and no second CLOSED is counted); in every state a retained
\* CLOSED item is the last item of its queue.
C3_ClosedIsLast ==
    /\ [](\A i \in Objs :
            objs[i].output # None =>
              \A k \in DOMAIN QueueOf(objs, i) :
                 QueueOf(objs, i)[k].type = CLOSED => k = Len(QueueOf(objs, i)))
    /\ [][\A i \in Objs :
            objs[i].nclosed >= 1 =>
              /\ IsSuffix(QueueOf(objs', i), QueueOf(objs, i))
              /\ objs'[i].nclosed = objs[i].nclosed]_vars

\* C3 witness: the thread appended CLOSED after payload events and ended, and
\* a watcher has since trimmed part of the buffer
C3_Witness ==
    \E i \in Objs :
       /\ objs[i].wpc = "done" /\ objs[i].nclosed = 1
       /\ objs[i].child.writes = MaxWrites
       /\ QueueOf(objs, i) # <<>>
       /\ QueueOf(objs, i)[1].type = CLOSED
       /\ \E s \in Sessions : sess[s].pc = "poll" /\ sess[s].procs # <<>>

\* C4 (as the claim states it): the capture thread of a process that has
\* exited does not end without having appended exactly one CLOSED event and
\* set running to false, whatever the watch sessions did to the buffer
\* meanwhile.
C4_ThreadEndsWithClosed ==
    \A i \in Objs :
       objs[i].child.exited /\ objs[i].wpc \in {"done", "crashed"}
         => objs[i].nclosed = 1 /\ ~objs[i].running

\* the fields Process.__eq__ is documented to compare
ConfigFields ==
    {"name", "args", "env", "rlimits", "working_dir", "shell", "out", "err",
     "bufsize", "uid", "gid"}

SameConfig(a, b) == \A f \in ConfigFields : a[f] = b[f]

\* a step in which a process command constructed and spawned a Process
Spawned == Len(objs') = Len(objs) + 1
Returned == objs'[Len(objs')]

\* C5: a spawn under a registered name with a structurally equal
\* configuration creates no OS process, starts no thread, leaves the registry
\* and every existing Process unchanged, and the handle it returns carries
\* the pid of the registered one.
C5_EqualSpawnCreatesNothing ==
    [][(/\ Spawned
        /\ processes[Returned.name] # NoProc
        /\ SameConfig(Returned, objs[processes[Returned.name]]))
         => /\ npids' = npids
            /\ processes' = processes
            /\ \A i \in Objs : objs'[i] = objs[i]
            /\ Returned.pid = objs[processes[Returned.name]].pid
            /\ Returned.pid # 0
            /\ Returned.wpc = "none"]_vars

\* C5 witness: a second spawn with the same configuration returned the pid of
\* the first while the first is registered and running
C5_Witness ==
    \E i, j \in Objs :
       /\ i < j /\ processes[objs[i].name] = i
       /\ objs[i].outcome = "spawned" /\ objs[j].outcome = "same"
       /\ objs[j].pid = objs[i].pid
       /\ npids = 1

\* C6 (as the claim states it): the handle an equal spawn returns is the
\* registered handle: it has the registered handle's output buffer and running
\* flag, so a watch on it retrieves the buffered events (it does not raise).
C6_EqualSpawnReturnsExisting ==
    [][(/\ Spawned
        /\ processes[Returned.name] # NoProc
        /\ SameConfig(Returned, objs[processes[Returned.name]]))
         => /\ Returned.output = objs[processes[Returned.name]].output
            /\ Returned.running = objs[processes[Returned.name]].running
            /\ ProcessWatch(Returned).err = "ok"]_vars

C8_DeletedOnlyAfterAck ==
    [][\A n \in Names :
         processes[n] # NoProc /\ processes'[n] # processes[n]
           => processes[n] \in acked']_vars

\* C9 (as the claim states it): no watch session ends in the KeyError of a
\* second removal of the same registry entry.
C9_PruningNeverFails ==
    \A s \in Sessions : sess[s].result # "KeyError"

\* a pass of session s that read the acknowledgment line
Acked(s) == sess[s].pc = "ack" /\ sess'[s].pc # "ack"

\* the tracked processes the pruning does not delete
Remaining(procs) == SelectSeq(procs, LAMBDA e : ~(e.t # 0 /\ e.closed))

C11_StopKeepsRegistered ==
    [][\A s \in Sessions :
         Acked(s) /\ sess'[s].result = "Stopped watching" =>
           \A k \in DOMAIN sess[s].procs :
              LET e == sess[s].procs[k] IN
              ~(e.t # 0 /\ e.closed) => processes'[e.name] = e.p]_vars

\* C11 (amended): the pass in which a stop request ends a session leaves the
\* registry entry of every tracked process whose CLOSED event the session was
\* not sent as it was before the pass, and leaves that process's running
\* flag, capture thread and child untouched.
C11_StopLeavesUnclosed ==
    [][\A s \in Sessions :
         Acked(s) /\ sess'[s].one_line = "q" =>
           \A k \in DOMAIN sess[s].procs :
              LET e == sess[s].procs[k] IN
              ~(e.t # 0 /\ e.closed) =>
                 /\ processes'[e.name] = processes[e.name]
                 /\ objs'[e.p].running = objs[e.p].running
                 /\ objs'[e.p].wpc = objs[e.p].wpc
                 /\ objs'[e.p].nclosed = objs[e.p].nclosed
                 /\ objs'[e.p].child = objs[e.p].child]_vars

\* C11 witness: a session was stopped while the process it tracked is
\* registered and running, its capture thread in the read loop
C11_Witness ==
    \E s \in Sessions, n \in Names :
       /\ sess[s].pc = "done" /\ sess[s].result = "Stopped watching"
       /\ processes[n] # NoProc
       /\ objs[processes[n]].running /\ objs[processes[n]].wpc = "loop"

\* the queue of the process a tracked entry e points at
EntryQueue(os, e) == os[e.p].output[1].q

\* C12: a session can always still be sent the CLOSED event of a process it
\* tracks: when the capture thread of a tracked process has appended CLOSED
\* and ended, and the session has not been sent the CLOSED frame, the event
\* is in the buffer.  (From a state where it is not, no batch for that process
\* follows and the session never ends with "Nothing left to watch", whatever
\* lines its client sends.)
C12_ClosedStillToCome ==
    \A s \in Sessions :
       sess[s].pc \in {"poll", "ack"} =>
         \A k \in DOMAIN sess[s].procs :
            LET e == sess[s].procs[k] IN
            objs[e.p].wpc = "done" /\ ~e.closed => HasClosed(EntryQueue(objs, e))

\* C13: the buffer of a process spawned with stdout capture size 10 retains at
\* most 10 payload bytes in every reachable state.
C13_RetainsAtMostTen ==
    \A i \in Objs :
       objs[i].output # None => SumLen(objs[i].output[1].q) <= 10

\* C14: a disconnect of the client during the wait for the acknowledgment
\* line is a stop: the pass that meets it ends the session, with no error and
\* no further batch, and deletes no process from the registry whose CLOSED
\* frame the session did not send.
C14_DisconnectIsStop ==
    [][\A s \in Sessions :
         Acked(s) /\ ~sess'[s].connected =>
           /\ sess'[s].pc = "done"
           /\ sess'[s].result \in {"Stopped watching", "Nothing left to watch"}
           /\ \A k \in DOMAIN sess[s].procs :
                 LET e == sess[s].procs[k] IN
                 ~(e.t # 0 /\ e.closed) => processes'[e.name] = processes[e.name]]_vars

\* pipe p of o is at end of file: the child's end is closed and nothing is
\* left to read
AtEOF(o, p) ==
    /\ o.child.exited \/ p \in o.child.closed
    /\ (IF p = "stdout" THEN o.child.po ELSE o.child.pe) = 0

\* C15: with stdout and stderr on separate pipes the capture thread leaves
\* its read loop only when both pipes are at end of file, and when it appends
\* CLOSED every byte written to a pipe has been read and appended.
C15_LoopEndsAtBothEOF ==
    [][\A i \in Objs :
         Len(Pipes(objs[i])) = 2 =>
           /\ objs[i].wpc = "loop" /\ objs'[i].wpc = "wait"
                => AtEOF(objs'[i], "stdout") /\ AtEOF(objs'[i], "stderr")
           /\ objs[i].wpc = "wait" /\ objs'[i].wpc = "closed"
                => objs[i].child.po = 0 /\ objs[i].child.pe = 0]_vars

\* C16: a capture thread one of whose reads failed still ends as the others
\* do: once the child has exited and the thread has ended, CLOSED was
\* appended once and running is false.
C16_ReadErrorStillCloses ==
    \A i \in Objs :
       objs[i].wpc = "failed" /\ objs[i].child.exited
         => objs[i].nclosed = 1 /\ ~objs[i].running

\* C17: with a single watch session, every event the trim after an
\* acknowledgment removes was in a batch already sent to the session: the
\* highest ordinal removed is at most the ordinal of the last event sent (an
\* event appended between the snapshot and the trim, or an event of a process
\* with no data in the batch, stays).
C17_TrimRemovesOnlySent ==
    [][\A s \in Sessions :
         Acked(s) /\ (\A s2 \in Sessions \ {s} : sess[s2].pc = "idle") =>
           \A k \in DOMAIN sess[s].procs :
              LET e == sess[s].procs[k] IN
              Len(EntryQueue(objs', e)) < Len(EntryQueue(objs, e))
                 => objs[e.p].napp - Len(EntryQueue(objs', e)) <= e.hi]_vars

\* C18: within one session no event goes into more than one batch (the lowest
\* ordinal a batch holds is above the highest the session sent before), and
\* the CLOSED frame is the last frame sent for a process: it ends the frames
\* of its batch, and a process whose CLOSED frame was sent is polled no more
\* and is tracked no more after the acknowledgment.
C18_NoEventSentTwice ==
    [][\A s \in Sessions :
         /\ sess[s].pc = "poll" /\ sess'[s].pc = "ack" =>
              \A k \in DOMAIN sess[s].procs :
                 LET e == sess[s].procs[k]
                     q == EntryQueue(objs, e)
                 IN /\ ~e.closed
                    /\ q # <<>> => objs[e.p].napp - Len(q) + 1 > e.hi
                    /\ HasClosed(q) => q[Len(q)].type = CLOSED
         /\ Acked(s) => \A k \in DOMAIN sess'[s].procs : ~sess'[s].procs[k].closed]_vars

\* C18 witness: the only session was sent a second batch for its process, the
\* CLOSED event alone, after the first batch (the payload event) was trimmed
C18_Witness ==
    \E s \in Sessions :
       /\ sess[s].pc = "ack"
       /\ \A s2 \in Sessions \ {s} : sess[s2].pc = "idle"
       /\ \E k \in DOMAIN sess[s].procs :
             LET e == sess[s].procs[k] IN
             /\ e.closed /\ e.hi = 2
             /\ objs[e.p].napp = 2
             /\ Len(EntryQueue(objs, e)) = 1

\* C19: in every state append and trim calls can lead a queue to, used is the
\* sum of the payload lengths of the STDOUT/STDERR events the queue retains.
C19_UsedIsRetainedSum == buf.used = SumLen(buf.q)

\* C20: every append of a non-empty STDOUT/STDERR event completes without an
\* error and leaves that event as the last one of the queue, and takes away
\* nothing but oldest events (what was retained and is retained still is the
\* end of the old queue); no trim that came before makes an append fail.
C20_AppendNeverFails ==
    [][(nadds' = nadds + 1)
         => /\ last'.err = "ok"
            /\ buf'.q # <<>>
            /\ buf'.q[Len(buf'.q)] = Item(last'.type, clock, last'.arg)
            /\ IsSuffix(SubSeq(buf'.q, 1, Len(buf'.q) - 1), buf.q)]_vars

====
